---- MODULE Spec2Model ----
(***************************************************************************)
(* Model of create_roadmap_from_data (create_roadmap_from_excel.py): the   *)
(* layout pass that walks the timeline, the goals, each goal's rows and    *)
(* each row's milestones and adds one shape per call to the slide.         *)
(*                                                                         *)
(* Lengths given in the workbook in inches are carried in hundredths of an *)
(* inch (0.8in is 80); Inches() converts them to EMU as python-pptx does   *)
(* (914400 EMU per inch), so every coordinate of a shape is an integer     *)
(* number of EMU.  Text is a sequence of one-character strings wherever    *)
(* the code splits, parses or formats it (the timeline labels and the      *)
(* milestone years); other text is an opaque string.                       *)
(*                                                                         *)
(* The slide is the sequence cmds of the shapes added so far, in order.    *)
(* Every shape carries, besides its geometry, the call site that added it  *)
(* (tag) and the loop positions at that call: g the position of the goal   *)
(* in the goals sheet, r the Row ID, m the position of the milestone in    *)
(* the milestones sheet (0 outside the loop).                              *)
(***************************************************************************)
EXTENDS Integers, Sequences, FiniteSets, TLC

VARIABLES timeline_df, goals_df, rows_df, milestones_df, usecases_df,
          pc, cmds, x_pos, year_positions, total_grid_width, current_top,
          ti, gi, goal_rows, idx, row_milestones, mi,
          current_stc, stc_start_top, stc_row_count

data == <<timeline_df, goals_df, rows_df, milestones_df, usecases_df>>
locals == <<x_pos, year_positions, total_grid_width, current_top,
            ti, gi, goal_rows, idx, row_milestones, mi,
            current_stc, stc_start_top, stc_row_count>>
vars == <<data, pc, cmds, locals>>

(***************************************************************************)
(* Bounds of the explored inputs.                                          *)
(***************************************************************************)
MaxCols == 3
MaxRows == 3
MaxMs == 2
MaxGoals == 2

(***************************************************************************)
(* Units and fixed lengths.                                                *)
(***************************************************************************)
SLIDE_WIDTH == 12191695
SLIDE_HEIGHT == 6858000

\* python-pptx lengths are EMU: 914400 to the inch, 12700 to the point
Inches(h) == h * 9144
Pt(p) == p * 12700

header_top == Inches(60)
header_height == Inches(30)
left_margin == Inches(140)
stc_width == Inches(40)
fta_width == Inches(100)

(***************************************************************************)
(* Text conversions: str(int), int(str) and str.split("-")[0].             *)
(***************************************************************************)
DigitChars == <<"0", "1", "2", "3", "4", "5", "6", "7", "8", "9">>

RECURSIVE StrOfInt(_)
StrOfInt(n) ==
    IF n < 10 THEN <<DigitChars[n + 1]>>
    ELSE StrOfInt(n \div 10) \o <<DigitChars[(n % 10) + 1]>>

DigitOf(c) == CHOOSE d \in 0..9 : DigitChars[d + 1] = c

RECURSIVE IntOfStr(_)
IntOfStr(s) ==
    IF Len(s) = 1 THEN DigitOf(s[1])
    ELSE IntOfStr(SubSeq(s, 1, Len(s) - 1)) * 10 + DigitOf(s[Len(s)])

\* the whole label used as the key, the range not split
SplitFirst_whole(s) == s

\* year.split("-")[0]: the characters before the first "-"
RECURSIVE SplitFirst(_)
SplitFirst(s) ==
    IF s = <<>> \/ s[1] = "-" THEN <<>>
    ELSE <<s[1]>> \o SplitFirst(Tail(s))

(***************************************************************************)
(* year_positions: a dict, kept as the sequence of its items in insertion  *)
(* order (assigning an existing key keeps its place).                      *)
(***************************************************************************)
DictHas(d, k) == \E i \in 1..Len(d) : d[i].key = k

DictGet(d, k) == d[CHOOSE i \in 1..Len(d) : d[i].key = k].val

\* every assignment kept as a new item, a repeated key not replaced
DictSet_append(d, k, v) == Append(d, [key |-> k, val |-> v])

DictSet(d, k, v) ==
    IF DictHas(d, k)
    THEN [i \in 1..Len(d) |-> IF d[i].key = k THEN [key |-> k, val |-> v] ELSE d[i]]
    ELSE Append(d, [key |-> k, val |-> v])

\* year_positions.get(k, default)
DictGetOr(d, k, default) == IF DictHas(d, k) THEN DictGet(d, k) ELSE default

(***************************************************************************)
(* Shapes.                                                                 *)
(***************************************************************************)
Shape(kind, tag, left, top, width, height, text, color, g, r, m) ==
    [shape |-> kind, tag |-> tag, x |-> left, y |-> top, w |-> width,
     h |-> height, text |-> text, color |-> color, g |-> g, r |-> r, m |-> m]

add_rectangle(tag, left, top, width, height, color, g, r, m) ==
    Shape("rect", tag, left, top, width, height, "", color, g, r, m)

add_text_box(tag, left, top, width, height, text, color, g, r, m) ==
    Shape("text", tag, left, top, width, height, text, color, g, r, m)

add_triangle_milestone(tag, left, top, size, color, g, r, m) ==
    Shape("tri", tag, left, top, size, size, "", color, g, r, m)

(***************************************************************************)
(* The workbook contents explored.                                         *)
(***************************************************************************)
RangeLabel(a, b) == StrOfInt(a) \o <<"-">> \o StrOfInt(b)

TimelineRow(label, width, last) ==
    [Year |-> label, Width |-> width, IsLast |-> last]

GoalRow(id) == [GoalID |-> id, GoalName |-> "Goal"]

RowsRow(id, stc, goal, height) ==
    [RowID |-> id, STC |-> stc, FTA |-> "FTA",
     Background |-> IF id % 2 = 1 THEN "Pink" ELSE "Purple",
     GoalID |-> goal, Height |-> height]

MilestoneRow(row, year, voff) ==
    [RowID |-> row, Year |-> year, VOffset |-> voff, Text |-> "Goal text",
     IsCritical |-> IF voff > 10 THEN "Yes" ELSE "No"]

UseCaseRow(id, color) == [UseCaseID |-> id, Color |-> color]

TemplateUseCases == <<UseCaseRow("UC1, UC2", "E8A060")>>

\* sequences over S of length lo..hi
SeqsOf(S, lo, hi) == UNION {[1..n -> S] : n \in lo..hi}

Labels == <<StrOfInt(2023), StrOfInt(2024), RangeLabel(2029, 2053),
            RangeLabel(2031, 2040)>>
Widths == {80, 180}
MsYears == {2020, 2024, 2026, 2029, 2031}
VOffsets == {10, 30}
Heights == {60, 80}
StcLabels == {"STC1", "STC2"}

\* the offsets of the milestones of a sheet alternate, starting from v
AlternateOffset(v, i) ==
    IF i % 2 = 1 THEN v ELSE CHOOSE o \in VOffsets : o # v

\* strictly increasing index sequences: the columns of a timeline in year order
Increasing(s) == \A i \in 1..(Len(s) - 1) : s[i] < s[i + 1]

\* Timelines in year order with positive widths; the last column may carry
\* the "Is Last Column" flag.
ValidTimelines ==
    {[i \in 1..Len(p) |->
        TimelineRow(Labels[p[i]], ws[i],
                    IF i = Len(p) /\ flag THEN "Yes" ELSE "No")] :
        <<p, ws, flag>> \in
            {t \in SeqsOf(1..Len(Labels), 1, MaxCols)
                    \X SeqsOf(Widths, 1, MaxCols) \X BOOLEAN :
                Len(t[1]) = Len(t[2]) /\ Increasing(t[1])}}

TemplateTimeline ==
    <<TimelineRow(StrOfInt(2023), 80, "No"), TimelineRow(StrOfInt(2024), 80, "No"),
      TimelineRow(RangeLabel(2029, 2053), 180, "Yes")>>

StartLocals ==
    /\ pc = "start"
    /\ cmds = <<>>
    /\ x_pos = 0
    /\ year_positions = <<>>
    /\ total_grid_width = 0
    /\ current_top = 0
    /\ ti = 0 /\ gi = 0 /\ idx = 0 /\ mi = 0
    /\ goal_rows = <<>>
    /\ row_milestones = <<>>
    /\ current_stc = <<>>
    /\ stc_start_top = 0
    /\ stc_row_count = 0

\* Column family: every valid timeline, one goal with one row, one or more
\* milestones on that row.
InitCols ==
    /\ timeline_df \in ValidTimelines
    /\ goals_df = <<GoalRow(1)>>
    /\ rows_df = <<RowsRow(1, "STC1", 1, 60)>>
    /\ milestones_df \in
          {[i \in 1..Len(ys) |-> MilestoneRow(1, ys[i], AlternateOffset(v, i))] :
              <<ys, v>> \in SeqsOf(MsYears, 1, MaxMs) \X VOffsets}
    /\ usecases_df = TemplateUseCases
    /\ StartLocals

(***************************************************************************)
(* The layout pass.                                                        *)
(***************************************************************************)
\* rows_df[rows_df['Goal ID'] == goal_id]: the rows of a goal, in sheet order
RowsOfGoal(rows, goal_id) == SelectSeq(rows, LAMBDA r : r.GoalID = goal_id)

\* milestones_df[milestones_df['Row ID'] == row_id]: positions in the sheet, in order
RECURSIVE PositionsFrom(_, _, _)
PositionsFrom(ms, row_id, i) ==
    IF i > Len(ms) THEN <<>>
    ELSE (IF ms[i].RowID = row_id THEN <<i>> ELSE <<>>) \o PositionsFrom(ms, row_id, i + 1)

\* the milestones of a row taken last-declared first
RECURSIVE PositionsDownFrom(_, _, _)
PositionsDownFrom(ms, row_id, i) ==
    IF i < 1 THEN <<>>
    ELSE (IF ms[i].RowID = row_id THEN <<i>> ELSE <<>>)
         \o PositionsDownFrom(ms, row_id, i - 1)

MilestonesOfRow_reversed(ms, row_id) == PositionsDownFrom(ms, row_id, Len(ms))

MilestonesOfRow(ms, row_id) == PositionsFrom(ms, row_id, 1)

\* str(x).lower() of the colour names the sheets use
Lower(s) ==
    CASE s = "Pink" -> "pink"
      [] s = "Purple" -> "purple"
      [] s = "Yellow" -> "yellow"
      [] OTHER -> s

\* bg_color_map.get(bg_color_name, colors['pink'])
BgColor(name) ==
    IF Lower(name) \in {"pink", "purple", "yellow"} THEN Lower(name) ELSE "pink"

\* line 193: the x of the next column
AdvanceX(x, width) == x + width

\* the cursor advanced by the template's row height instead of the row's own
AdvanceTop_fixed(top, row_height) == top + Inches(60)

\* line 300: the top of the next row
AdvanceTop(top, row_height) == top + row_height

\* line 239: does this row start a new run
RunChanged(stc, cur) == cur # <<stc>>

\* the run anchor left where the goal block began
RunStart_stale(changed, top, start) == start

\* line 250: the top of the run the row belongs to
RunStart(changed, top, start) == IF changed THEN top ELSE start

\* lines 251-253: the number of rows of the run so far
RunCount(changed, count) == IF changed THEN 1 ELSE count + 1

\* lines 243-247 and 305-309: the merged STC cell and its label
StcCell(top, height, label, g) ==
    <<add_rectangle("stc_rect", 0, top, stc_width, height, "navy", g, 0, 0),
      add_text_box("stc_text", Inches(2), top + (height \div 2) - Inches(10),
                   stc_width - Inches(4), Inches(25), label, "white", g, 0, 0)>>

\* line 242: height of the run closed when the label changes
ClosedRunHeight(row_height, count) == row_height * count

\* line 304: height of the run closed at the end of the goal block
FinalRunHeight(rows, goal_id, count) ==
    Inches(RowsOfGoal(rows, goal_id)[1].Height) * count

\* lines 266-271: one gridline per item of year_positions
GridLines(yp, top, row_height, g, r) ==
    [i \in 1..Len(yp) |->
        Shape("rect", "gridline", yp[i].val, top, Pt(1), row_height, "", "cccccc", g, r, 0)]

\* the overflow inset applied to an exact match as well
FindX_oneInset(year, yp) ==
    IF DictHas(yp, year)
    THEN <<DictGet(yp, year) + Inches(30)>>
    ELSE IF IntOfStr(year) >= 2029
         THEN <<DictGetOr(yp, StrOfInt(2029), yp[Len(yp)].val) + Inches(30)>>
         ELSE <<>>

\* lines 283-288: the marker's x, <<x>>, or <<>> when the milestone is skipped.
\* The default of the .get is the x of the last item of year_positions; the
\* timelines explored have at least one entry, so that item exists.
FindX(year, yp) ==
    IF DictHas(yp, year)
    THEN <<DictGet(yp, year) + Inches(15)>>
    ELSE IF IntOfStr(year) >= 2029
         THEN <<DictGetOr(yp, StrOfInt(2029), yp[Len(yp)].val) + Inches(30)>>
         ELSE <<>>

\* lines 154-178: background, title, "Fiscal Years" cell
Setup ==
    /\ pc = "start"
    /\ cmds' = cmds \o
         <<Shape("rect", "background", 0, 0, SLIDE_WIDTH, SLIDE_HEIGHT, "", "e0e0d0", 0, 0, 0),
           add_text_box("title", Inches(0), Inches(15), SLIDE_WIDTH, Inches(50),
                        "Title", "", 0, 0, 0),
           add_rectangle("fy_rect", left_margin, header_top, Inches(100),
                         header_height, "navy", 0, 0, 0),
           add_text_box("fy_text", left_margin, header_top, Inches(100),
                        header_height, "Fiscal Years", "white", 0, 0, 0)>>
    /\ x_pos' = left_margin + Inches(100)
    /\ year_positions' = <<>>
    /\ ti' = 1
    /\ pc' = "timeline"
    /\ UNCHANGED <<data, total_grid_width, current_top, gi, goal_rows, idx,
                   row_milestones, mi, current_stc, stc_start_top, stc_row_count>>

\* lines 180-193: one timeline entry
TimelineStep ==
    /\ pc = "timeline"
    /\ ti <= Len(timeline_df)
    /\ LET row == timeline_df[ti]
           year == row.Year
           width == Inches(row.Width)
           year_key == SplitFirst(year)
       IN /\ cmds' = cmds \o
                <<add_rectangle("col_rect", x_pos, header_top, width, header_height,
                                "navy", 0, 0, 0),
                  add_text_box("col_text", x_pos, header_top, width, header_height,
                               year, "white", 0, 0, 0)>>
          /\ year_positions' = DictSet(year_positions, year_key, x_pos)
          /\ x_pos' = AdvanceX(x_pos, width)
    /\ ti' = ti + 1
    /\ UNCHANGED <<data, pc, total_grid_width, current_top, gi, goal_rows, idx,
                   row_milestones, mi, current_stc, stc_start_top, stc_row_count>>

\* lines 195-202: after the timeline loop
TimelineDone ==
    /\ pc = "timeline"
    /\ ti > Len(timeline_df)
    /\ total_grid_width' = x_pos - left_margin - Inches(100)
    /\ current_top' = Inches(95)
    /\ gi' = 1
    /\ pc' = "goals"
    /\ UNCHANGED <<data, cmds, x_pos, year_positions, ti, goal_rows, idx,
                   row_milestones, mi, current_stc, stc_start_top, stc_row_count>>

\* lines 204-227: goal header, rows of the goal, run state reset.
\* stc_spans (lines 217-222) is filled here and never read; it is left out.
GoalBegin ==
    /\ pc = "goals"
    /\ gi <= Len(goals_df)
    /\ LET goal == goals_df[gi]
       IN /\ cmds' = Append(cmds,
                add_text_box("goal_text", Inches(0), current_top, SLIDE_WIDTH,
                             Inches(25), goal.GoalName, "", gi, 0, 0))
          /\ goal_rows' = RowsOfGoal(rows_df, goal.GoalID)
    /\ current_top' = current_top + Inches(30)
    /\ current_stc' = <<>>
    /\ stc_start_top' = current_top'
    /\ stc_row_count' = 0
    /\ idx' = 1
    /\ pc' = "rows"
    /\ UNCHANGED <<data, x_pos, year_positions, total_grid_width, ti, gi,
                   row_milestones, mi>>

\* lines 229-274: one row up to its milestone loop
RowBegin ==
    /\ pc = "rows"
    /\ idx <= Len(goal_rows)
    /\ LET row == goal_rows[idx]
           row_id == row.RowID
           stc == row.STC
           row_height == Inches(row.Height)
           bg_color == BgColor(row.Background)
           changed == RunChanged(stc, current_stc)
           closed ==
               IF changed /\ current_stc # <<>> /\ stc_row_count > 0
               THEN StcCell(stc_start_top, ClosedRunHeight(row_height, stc_row_count),
                            current_stc[1], gi)
               ELSE <<>>
       IN /\ current_stc' = IF changed THEN <<stc>> ELSE current_stc
          /\ stc_start_top' = RunStart(changed, current_top, stc_start_top)
          /\ stc_row_count' = RunCount(changed, stc_row_count)
          /\ cmds' = cmds \o closed \o
                <<add_rectangle("fta_rect", stc_width, current_top, fta_width,
                                row_height, "navy", gi, row_id, 0),
                  add_text_box("fta_text", stc_width + Inches(25),
                               current_top + (row_height \div 2) - Inches(10),
                               Inches(50), Inches(25), row.FTA, "white", gi, row_id, 0),
                  add_rectangle("row_bg", left_margin, current_top,
                                total_grid_width + Inches(100), row_height,
                                bg_color, gi, row_id, 0)>>
                \o GridLines(year_positions, current_top, row_height, gi, row_id)
          /\ row_milestones' = MilestonesOfRow(milestones_df, row_id)
    /\ mi' = 1
    /\ pc' = "milestones"
    /\ UNCHANGED <<data, x_pos, year_positions, total_grid_width, current_top,
                   ti, gi, goal_rows, idx>>

\* lines 276-298: one milestone of the current row
MilestoneStep ==
    /\ pc = "milestones"
    /\ mi <= Len(row_milestones)
    /\ LET m == row_milestones[mi]
           ms == milestones_df[m]
           row_id == goal_rows[idx].RowID
           year == StrOfInt(ms.Year)
           is_critical == Lower(ms.IsCritical) = "yes"
           fx == FindX(year, year_positions)
           y == current_top + Inches(ms.VOffset)
       IN cmds' =
            IF fx = <<>> THEN cmds
            ELSE cmds \o
                 <<add_triangle_milestone("ms_marker", fx[1], y, Inches(12),
                                          "milestone", gi, row_id, m),
                   add_text_box("ms_text", fx[1] + Inches(14), y, Inches(90), Inches(15),
                                ms.Text, IF is_critical THEN "critical" ELSE "333333",
                                gi, row_id, m)>>
    /\ mi' = mi + 1
    /\ UNCHANGED <<data, pc, x_pos, year_positions, total_grid_width, current_top,
                   ti, gi, goal_rows, idx, row_milestones,
                   current_stc, stc_start_top, stc_row_count>>

\* line 300: after the milestone loop
RowEnd ==
    /\ pc = "milestones"
    /\ mi > Len(row_milestones)
    /\ current_top' = AdvanceTop(current_top, Inches(goal_rows[idx].Height))
    /\ idx' = idx + 1
    /\ pc' = "rows"
    /\ UNCHANGED <<data, cmds, x_pos, year_positions, total_grid_width,
                   ti, gi, goal_rows, row_milestones, mi,
                   current_stc, stc_start_top, stc_row_count>>

\* lines 302-309: after the row loop, the last run of the goal
GoalEnd ==
    /\ pc = "rows"
    /\ idx > Len(goal_rows)
    /\ cmds' =
         IF current_stc # <<>> /\ stc_row_count > 0
         THEN cmds \o StcCell(stc_start_top,
                              FinalRunHeight(rows_df, goals_df[gi].GoalID, stc_row_count),
                              current_stc[1], gi)
         ELSE cmds
    /\ gi' = gi + 1
    /\ pc' = "goals"
    /\ UNCHANGED <<data, x_pos, year_positions, total_grid_width, current_top,
                   ti, goal_rows, idx, row_milestones, mi,
                   current_stc, stc_start_top, stc_row_count>>

\* the bands put at the cursor itself, the gap left out
ArrowTop_noGap(top) == top

\* line 312: the top of the term bands
ArrowTop(top) == top + Inches(10)

\* lines 311-328: the three term bands
TermArrows ==
    /\ pc = "goals"
    /\ gi > Len(goals_df)
    /\ LET arrow_top == ArrowTop(current_top)
           arrow_height == Inches(35)
       IN cmds' = cmds \o
            <<add_rectangle("near_rect", left_margin, arrow_top, Inches(240),
                            arrow_height, "near_term", 0, 0, 0),
              add_text_box("near_text", left_margin, arrow_top, Inches(240),
                           arrow_height, "Near Term", "white", 0, 0, 0),
              add_rectangle("mid_rect", left_margin + Inches(230), arrow_top, Inches(200),
                            arrow_height, "mid_term", 0, 0, 0),
              add_text_box("mid_text", left_margin + Inches(230), arrow_top, Inches(200),
                           arrow_height, "Mid Term", "white", 0, 0, 0),
              add_rectangle("far_rect", left_margin + Inches(420), arrow_top, Inches(340),
                            arrow_height, "far_term", 0, 0, 0),
              add_text_box("far_text", left_margin + Inches(420), arrow_top, Inches(340),
                           arrow_height, "Far Term", "333333", 0, 0, 0)>>
    /\ pc' = "legend"
    /\ UNCHANGED <<data, locals>>

uc_texts == <<"UC1 - Use case 1 text", "UC2 - Use case 2 text",
              "UC3 - Use case 3 text", "UC4 - Use case 4 text">>

\* lines 330-376: the legend block, then return
Legend ==
    /\ pc = "legend"
    /\ LET legend_top == ArrowTop(current_top) + Inches(50)
           legend_left == Inches(30)
           uc_left == legend_left + Inches(160)
           uc_indicator_left == uc_left + Inches(170)
       IN cmds' = cmds \o
            <<add_text_box("legend_title", legend_left, legend_top, Inches(100), Inches(20),
                           "LEGEND", "", 0, 0, 0),
              add_rectangle("legend_stc_rect", legend_left, legend_top + Inches(20),
                            Inches(130), Inches(20), "tan_box", 0, 0, 0),
              add_text_box("legend_stc_text", legend_left, legend_top + Inches(20),
                           Inches(130), Inches(20), "Strategic Test Capability",
                           "white", 0, 0, 0),
              add_rectangle("legend_fta_rect", legend_left, legend_top + Inches(45),
                            Inches(130), Inches(20), "navy", 0, 0, 0),
              add_text_box("legend_fta_text", legend_left, legend_top + Inches(45),
                           Inches(130), Inches(20), "Functional Test Area",
                           "white", 0, 0, 0),
              add_triangle_milestone("legend_ms_marker", legend_left,
                                     legend_top + Inches(70), Inches(12), "milestone", 0, 0, 0),
              add_text_box("legend_ms_text", legend_left + Inches(15),
                           legend_top + Inches(70), Inches(100), Inches(15),
                           "Key Milestone", "", 0, 0, 0),
              add_text_box("uc_heading", uc_left, legend_top + Inches(20), Inches(150),
                           Inches(15), "Use Cases:", "", 0, 0, 0)>>
            \o [i \in 1..Len(uc_texts) |->
                  add_text_box("uc_caption", uc_left, legend_top + Inches(35 + (i - 1) * 15),
                               Inches(150), Inches(15), uc_texts[i], "", 0, 0, 0)]
            \o [k \in 1..(2 * Len(usecases_df)) |->
                  LET i == (k - 1) \div 2
                      uc == usecases_df[i + 1]
                  IN IF k % 2 = 1
                     THEN add_triangle_milestone("uc_marker", uc_indicator_left,
                                                 legend_top + Inches(20 + i * 20),
                                                 Inches(10), uc.Color, 0, 0, 0)
                     ELSE add_text_box("uc_text", uc_indicator_left + Inches(12),
                                       legend_top + Inches(20 + i * 20),
                                       Inches(120), Inches(12), uc.UseCaseID, "", 0, 0, 0)]
    /\ pc' = "done"
    /\ UNCHANGED <<data, locals>>

\* Row family: the template's timeline, one or two goals, every sequence of
\* rows over the labels, heights and declared goals, and one milestone that
\* names the first row, the second row or no row at all.
InitRows ==
    /\ timeline_df = TemplateTimeline
    /\ goals_df \in {[i \in 1..n |-> GoalRow(i)] : n \in 1..MaxGoals}
    /\ rows_df \in
          {[i \in 1..Len(s) |-> RowsRow(i, s[i][1], s[i][3], s[i][2])] :
              s \in SeqsOf(StcLabels \X Heights \X (1..Len(goals_df)), 1, MaxRows)}
    /\ milestones_df \in {<<MilestoneRow(r, 2024, 10)>> : r \in {1, 2, 99}}
    /\ usecases_df = TemplateUseCases
    /\ StartLocals

\* Defective family: the template's timeline, two goals and two rows with
\* one structural defect put in.
DefectiveInputs ==
    LET tl == TemplateTimeline
        gs == <<GoalRow(1), GoalRow(2)>>
        rs == <<RowsRow(1, "STC1", 1, 60), RowsRow(2, "STC1", 2, 60)>>
    IN  {<<[tl EXCEPT ![i].Width = w], gs, rs>> : i \in 1..Len(tl), w \in {0, -80}}
        \cup {<<tl, gs, [rs EXCEPT ![i].Height = h]>> : i \in 1..Len(rs), h \in {0, -60}}
        \cup {<<tl, <<GoalRow(1), GoalRow(1)>>, rs>>}
        \cup {<<tl, gs, [rs EXCEPT ![i].GoalID = 77]>> : i \in 1..Len(rs)}
        \cup {<<[tl EXCEPT ![i].IsLast = "Yes"], gs, rs>> : i \in 1..(Len(tl) - 1)}
        \cup {<<[tl EXCEPT ![i].IsLast = "Yes", ![Len(tl)].IsLast = "No"], gs, rs>> :
                 i \in 1..(Len(tl) - 1)}

InitDefective ==
    /\ \E d \in DefectiveInputs :
          /\ timeline_df = d[1]
          /\ goals_df = d[2]
          /\ rows_df = d[3]
    /\ milestones_df \in {<<MilestoneRow(r, 2024, 10)>> : r \in {1, 2}}
    /\ usecases_df = TemplateUseCases
    /\ StartLocals

\* Order family: the template's timeline, up to MaxGoals goals, every
\* sequence of rows over the labels and declared goals (one height), and
\* three milestones: the first and the third on row 1 at one position, the
\* second on row 2 in a year no column has.
InitOrder ==
    /\ timeline_df = TemplateTimeline
    /\ goals_df \in {[i \in 1..n |-> GoalRow(i)] : n \in 1..MaxGoals}
    /\ rows_df \in
          {[i \in 1..Len(s) |-> RowsRow(i, s[i][1], s[i][2], 60)] :
              s \in SeqsOf(StcLabels \X (1..Len(goals_df)), 1, MaxRows)}
    /\ milestones_df = <<MilestoneRow(1, 2024, 10), MilestoneRow(2, 2020, 10),
                         MilestoneRow(1, 2024, 10)>>
    /\ usecases_df = TemplateUseCases
    /\ StartLocals

\* Key family: timelines over three labels of which two lead with the same
\* year, in year order with repeats allowed, so that a key may be recorded
\* more than once, the two widths alternating from either one; one goal with
\* every sequence of row heights; one milestone.
KeyLabels == <<StrOfInt(2023), StrOfInt(2029), RangeLabel(2029, 2053)>>

NonDecreasing(s) == \A i \in 1..(Len(s) - 1) : s[i] <= s[i + 1]

InitKeys ==
    /\ timeline_df \in
          {[i \in 1..Len(p) |->
                TimelineRow(KeyLabels[p[i]], IF i % 2 = 1 THEN w ELSE 260 - w, "No")] :
              <<p, w>> \in
                  {q \in SeqsOf(1..Len(KeyLabels), 1, MaxCols) : NonDecreasing(q)} \X Widths}
    /\ goals_df = <<GoalRow(1)>>
    /\ rows_df \in
          {[i \in 1..Len(hs) |-> RowsRow(i, "STC1", 1, hs[i])] :
              hs \in SeqsOf(Heights, 1, MaxRows)}
    /\ milestones_df = <<MilestoneRow(1, 2029, 10)>>
    /\ usecases_df = TemplateUseCases
    /\ StartLocals

Init == InitCols \/ InitRows \/ InitDefective \/ InitOrder \/ InitKeys

Next ==
    \/ Setup
    \/ TimelineStep
    \/ TimelineDone
    \/ GoalBegin
    \/ RowBegin
    \/ MilestoneStep
    \/ RowEnd
    \/ GoalEnd
    \/ TermArrows
    \/ Legend

Spec == Init /\ [][Next]_vars
SpecCols == InitCols /\ [][Next]_vars
SpecRows == InitRows /\ [][Next]_vars
SpecDefective == InitDefective /\ [][Next]_vars
SpecOrder == InitOrder /\ [][Next]_vars
SpecKeys == InitKeys /\ [][Next]_vars

(***************************************************************************)
(* What the layout is expected to be, computed from the workbook alone.    *)
(***************************************************************************)
RECURSIVE SumHeights(_, _, _)
SumHeights(block, i, j) ==
    IF i > j THEN 0 ELSE Inches(block[i].Height) + SumHeights(block, i + 1, j)

\* the rows of the goal at position g of the goals sheet
Block(g) == RowsOfGoal(rows_df, goals_df[g].GoalID)

\* last row of the maximal run of equal STC labels that starts at row i
RECURSIVE RunEnd(_, _)
RunEnd(block, i) ==
    IF i < Len(block) /\ block[i + 1].STC = block[i].STC
    THEN RunEnd(block, i + 1) ELSE i

\* the maximal runs of a block, in order
RECURSIVE RunsFrom(_, _)
RunsFrom(block, i) ==
    IF i > Len(block) THEN <<>>
    ELSE <<[first |-> i, last |-> RunEnd(block, i)]>>
         \o RunsFrom(block, RunEnd(block, i) + 1)

Runs(g) == RunsFrom(Block(g), 1)

\* the goal blocks before position gi are complete
Finished(g) == g \in 1..Len(goals_df) /\ g < gi

ShapesOf(tag, g) == SelectSeq(cmds, LAMBDA c : c.tag = tag /\ c.g = g)

\* C1: every maximal run of K rows sharing one STC label in a goal block
\* gets exactly one merged STC cell, and the cell's height is the sum of the
\* heights of exactly those K rows, whatever the heights are and whether the
\* run is closed by a label change or by the end of the block.
C1_StcCellHeightIsSumOfRun ==
    \A g \in 1..Len(goals_df) :
        Finished(g) =>
            LET cells == ShapesOf("stc_rect", g)
                runs == Runs(g)
            IN /\ Len(cells) = Len(runs)
               /\ \A k \in 1..Len(runs) :
                     cells[k].h = SumHeights(Block(g), runs[k].first, runs[k].last)

\* C7: within a goal block the rows are stacked in declared order without
\* gap or overlap: the first row's top is the cursor after the goal header,
\* each later row's top is the previous row's top plus its height, each
\* emitted height is the row's Row Height, and after the block the cursor
\* has advanced by the sum of the block's row heights.
C7_RowsStackedWithoutGaps ==
    \A g \in 1..Len(goals_df) :
        LET ftas == ShapesOf("fta_rect", g)
            heads == ShapesOf("goal_text", g)
            block == Block(g)
        IN /\ Len(ftas) <= Len(block)
           /\ \A k \in 1..Len(ftas) :
                 /\ ftas[k].r = block[k].RowID
                 /\ ftas[k].h = Inches(block[k].Height)
                 /\ ftas[k].y = IF k = 1 THEN heads[1].y + Inches(30)
                                ELSE ftas[k - 1].y + ftas[k - 1].h
           /\ Finished(g) =>
                 /\ Len(ftas) = Len(block)
                 /\ (pc = "goals" /\ gi = g + 1) =>
                        current_top = heads[1].y + Inches(30)
                                      + SumHeights(block, 1, Len(block))

C7_Witness ==
    /\ pc = "goals" /\ gi = 2
    /\ Len(Block(1)) = 3
    /\ Block(1)[1].Height # Block(1)[2].Height

\* C8: the merged STC cells of a goal block are, in order, one per maximal
\* run of equal STC labels of the block; each carries the run's label and
\* is anchored at the top of the run's first row.
C8_StcCellsAreTheMaximalRuns ==
    \A g \in 1..Len(goals_df) :
        Finished(g) =>
            LET cells == ShapesOf("stc_rect", g)
                texts == ShapesOf("stc_text", g)
                ftas == ShapesOf("fta_rect", g)
                runs == Runs(g)
            IN /\ Len(cells) = Len(runs)
               /\ Len(texts) = Len(runs)
               /\ \A k \in 1..Len(runs) :
                     /\ cells[k].y = ftas[runs[k].first].y
                     /\ texts[k].text = Block(g)[runs[k].first].STC

\* a block STC1, STC2, STC1: two runs of one label across a break, every
\* run of length 1, three cells
C8_Witness ==
    /\ pc = "done"
    /\ Len(Runs(1)) = 3
    /\ Block(1)[1].STC = Block(1)[3].STC
    /\ Len(ShapesOf("stc_rect", 1)) = 3

\* the leading year of a timeline label, read off its first four characters
LeadYear(label) == CHOOSE y \in 1990..2060 : SubSeq(label, 1, 4) = StrOfInt(y)

RECURSIVE SumWidths(_, _)
SumWidths(tl, n) == IF n = 0 THEN 0 ELSE Inches(tl[n].Width) + SumWidths(tl, n - 1)

\* the left edge of column i: the label gutter, then the columns before it
ColumnX(i) == left_margin + Inches(100) + SumWidths(timeline_df, i - 1)

\* C6: the x-offsets of the columns are strictly increasing in entry order,
\* each column starts where the previous one ends, the first at the left
\* margin plus the label gutter; these are the offsets recorded under the
\* year keys, and the entry widths sum to the total grid width.
C6_ColumnsContiguousAndIncreasing ==
    LET cols == SelectSeq(cmds, LAMBDA c : c.tag = "col_rect")
    IN /\ \A k \in 1..Len(cols) :
             /\ cols[k].w = Inches(timeline_df[k].Width)
             /\ cols[k].x = IF k = 1 THEN left_margin + Inches(100)
                            ELSE cols[k - 1].x + cols[k - 1].w
             /\ k > 1 => cols[k - 1].x < cols[k].x
       /\ Len(year_positions) = Len(cols)
       /\ \A k \in 1..Len(cols) :
             /\ year_positions[k].val = cols[k].x
             /\ year_positions[k].key = StrOfInt(LeadYear(timeline_df[k].Year))
       /\ pc \notin {"start", "timeline"} =>
             /\ Len(cols) = Len(timeline_df)
             /\ total_grid_width = SumWidths(timeline_df, Len(timeline_df))


\* the column milestones overflow into: the flagged one, else the last one
OverflowColumn ==
    IF \E i \in 1..Len(timeline_df) : timeline_df[i].IsLast = "Yes"
    THEN CHOOSE i \in 1..Len(timeline_df) : timeline_df[i].IsLast = "Yes"
    ELSE Len(timeline_df)

overflowThresholdYear == LeadYear(timeline_df[OverflowColumn].Year)

\* the milestone's year is the key of a declared column
ExactColumn(year) == \E i \in 1..Len(timeline_df) : LeadYear(timeline_df[i].Year) = year

ColumnOf(year) ==
    CHOOSE i \in 1..Len(timeline_df) :
        /\ LeadYear(timeline_df[i].Year) = year
        /\ \A j \in (i + 1)..Len(timeline_df) : LeadYear(timeline_df[j].Year) # year

\* the milestone names a row of a declared goal, so its row is laid out
RowLaidOut(m) ==
    \E g \in 1..Len(goals_df) : \E k \in 1..Len(Block(g)) :
        Block(g)[k].RowID = milestones_df[m].RowID

MarkersOf(m) == SelectSeq(cmds, LAMBDA c : c.tag = "ms_marker" /\ c.m = m)

DrawnFor(m) == \E p \in 1..Len(cmds) : cmds[p].m = m

\* C2: a milestone whose year is not an exact column key is placed, at the
\* overflow column's x plus the overflow inset, if and only if its year is
\* at or past the leading year of the overflow column (the flagged column,
\* else the last one), whatever year that column starts at.
C2_OverflowIffPastThreshold ==
    pc = "done" =>
        \A m \in 1..Len(milestones_df) :
            (RowLaidOut(m) /\ ~ExactColumn(milestones_df[m].Year)) =>
                /\ (MarkersOf(m) # <<>>) <=> (milestones_df[m].Year >= overflowThresholdYear)
                /\ \A k \in 1..Len(MarkersOf(m)) :
                      MarkersOf(m)[k].x = ColumnX(OverflowColumn) + Inches(30)

\* C3: a milestone whose year is neither an exact column key nor at or past
\* the overflow threshold produces no marker and no label anywhere.
C3_BelowThresholdNeverDrawn ==
    \A m \in 1..Len(milestones_df) :
        (~ExactColumn(milestones_df[m].Year)
            /\ milestones_df[m].Year < overflowThresholdYear) => ~DrawnFor(m)

\* the warnings the pass returns: line 376 returns the presentation alone,
\* and the skip at line 288 records nothing
warnings == <<>>

\* C4: every skipped milestone (year unresolvable, or Row ID naming no row)
\* is recorded in the warnings returned with the draw commands.
C4_SkippedMilestonesAreReported ==
    pc = "done" =>
        \A m \in 1..Len(milestones_df) :
            ~DrawnFor(m) => \E i \in 1..Len(warnings) : warnings[i] = m

\* the structural rules of the data model
StructurallyValid ==
    /\ \A i \in 1..Len(timeline_df) : timeline_df[i].Width > 0
    /\ \A i \in 1..Len(rows_df) : rows_df[i].Height > 0
    /\ \A i, j \in 1..Len(goals_df) : goals_df[i].GoalID = goals_df[j].GoalID => i = j
    /\ \A i \in 1..Len(rows_df) :
          \E g \in 1..Len(goals_df) : goals_df[g].GoalID = rows_df[i].GoalID
    /\ \A i \in 1..Len(timeline_df) : timeline_df[i].IsLast = "Yes" => i = Len(timeline_df)

\* C5: on an input with a structural violation the pass ends in the
\* InvalidLayoutInput error and emits no draw command at all.
C5_InvalidInputEmitsNothing ==
    ~StructurallyValid => (cmds = <<>> /\ pc # "done")

\* C9: a milestone whose year is a declared column key has its marker at
\* that column's x plus the fixed inset and at its row's top plus its
\* Vertical Offset, and its label at the marker's x plus the fixed gutter
\* and the same y; every such milestone of a laid-out row is placed.
C9_ExactYearPlacement ==
    /\ \A p \in 1..Len(cmds) :
          (cmds[p].tag = "ms_marker" /\ ExactColumn(milestones_df[cmds[p].m].Year)) =>
              LET c == cmds[p]
                  ms == milestones_df[c.m]
                  rowtop == SelectSeq(cmds, LAMBDA f : f.tag = "fta_rect" /\ f.g = c.g
                                                       /\ f.r = c.r)[1].y
              IN /\ ms.RowID = c.r
                 /\ c.x = ColumnX(ColumnOf(ms.Year)) + Inches(15)
                 /\ c.y = rowtop + Inches(ms.VOffset)
                 /\ cmds[p + 1].tag = "ms_text"
                 /\ cmds[p + 1].m = c.m
                 /\ cmds[p + 1].x = c.x + Inches(14)
                 /\ cmds[p + 1].y = c.y
    /\ pc = "done" =>
          \A m \in 1..Len(milestones_df) :
              (RowLaidOut(m) /\ ExactColumn(milestones_df[m].Year)) => MarkersOf(m) # <<>>

\* two milestones of one row on the same column with different offsets
C9_Witness ==
    /\ pc = "done"
    /\ Len(milestones_df) = 2
    /\ milestones_df[1].Year = 2024 /\ milestones_df[2].Year = 2024
    /\ Len(MarkersOf(1)) = 1 /\ Len(MarkersOf(2)) = 1
    /\ MarkersOf(1)[1].x = MarkersOf(2)[1].x
    /\ MarkersOf(1)[1].y # MarkersOf(2)[1].y

\* the end-to-end scenario: columns "2023" (0.8), "2024" (0.8) and
\* "2029-2053" (1.8, flagged), one row 0.6 high, its first milestone in
\* year 2029 at vertical offset 0.1
E2EScenario ==
    /\ timeline_df = TemplateTimeline
    /\ rows_df = <<RowsRow(1, "STC1", 1, 60)>>
    /\ milestones_df[1] = MilestoneRow(1, 2029, 10)

\* C10 as stated: in the scenario the marker of the year-2029 milestone is
\* at the overflow column's x plus the overflow inset, the x the overflow
\* rule gives a year-2031 milestone of the same row, and at the row's top
\* plus 0.1.
C10_Original_SameXAsOverflowRule ==
    (E2EScenario /\ pc = "done") =>
        /\ Len(MarkersOf(1)) = 1
        /\ MarkersOf(1)[1].x = ColumnX(OverflowColumn) + Inches(30)
        /\ MarkersOf(1)[1].y = ShapesOf("fta_rect", 1)[1].y + Inches(10)
        /\ \A m \in 2..Len(milestones_df) :
              milestones_df[m].Year = 2031 =>
                  /\ Len(MarkersOf(m)) = 1
                  /\ MarkersOf(m)[1].x = MarkersOf(1)[1].x

\* C10 amended: in the scenario the marker of the year-2029 milestone is at
\* the overflow column's x plus the exact-match inset (0.15), which is 0.15
\* left of the x the overflow rule gives a year-2031 milestone of the same
\* row (overflow column's x plus 0.3), and at the row's top plus 0.1.
C10_ExactInsetOnOverflowColumn ==
    (E2EScenario /\ pc = "done") =>
        /\ Len(MarkersOf(1)) = 1
        /\ MarkersOf(1)[1].x = ColumnX(OverflowColumn) + Inches(15)
        /\ MarkersOf(1)[1].y = ShapesOf("fta_rect", 1)[1].y + Inches(10)
        /\ \A m \in 2..Len(milestones_df) :
              milestones_df[m].Year = 2031 =>
                  /\ Len(MarkersOf(m)) = 1
                  /\ MarkersOf(m)[1].x = ColumnX(OverflowColumn) + Inches(30)
                  /\ MarkersOf(m)[1].x = MarkersOf(1)[1].x + Inches(15)

C10_Witness ==
    /\ E2EScenario
    /\ pc = "done"
    /\ Len(milestones_df) = 2
    /\ milestones_df[2].Year = 2031
    /\ Len(MarkersOf(1)) = 1
    /\ Len(MarkersOf(2)) = 1

(***************************************************************************)
(* The order of the shapes.                                                *)
(***************************************************************************)
\* the stage a shape belongs to: background, title, timeline header, goal
\* blocks, term bands, legend
StageOf(tag) ==
    CASE tag = "background" -> 1
      [] tag = "title" -> 2
      [] tag \in {"fy_rect", "fy_text", "col_rect", "col_text"} -> 3
      [] tag \in {"goal_text", "stc_rect", "stc_text", "fta_rect", "fta_text",
                  "row_bg", "gridline", "ms_marker", "ms_text"} -> 4
      [] tag \in {"near_rect", "near_text", "mid_rect", "mid_text",
                  "far_rect", "far_text"} -> 5
      [] OTHER -> 6

\* shapes with one possible successor, each followed by the next of its chain
Chains ==
    << <<"background", "title", "fy_rect", "fy_text">>,
       <<"col_rect", "col_text">>,
       <<"stc_rect", "stc_text">>,
       <<"fta_rect", "fta_text", "row_bg">>,
       <<"ms_marker", "ms_text">>,
       <<"near_rect", "near_text", "mid_rect", "mid_text", "far_rect", "far_text",
         "legend_title", "legend_stc_rect", "legend_stc_text", "legend_fta_rect",
         "legend_fta_text", "legend_ms_marker", "legend_ms_text", "uc_heading",
         "uc_caption">>,
       <<"uc_marker", "uc_text">> >>

InChain(a, b) ==
    \E c \in 1..Len(Chains) : \E i \in 1..(Len(Chains[c]) - 1) :
        Chains[c][i] = a.tag /\ Chains[c][i + 1] = b.tag
                             /\ a.g = b.g /\ a.r = b.r /\ a.m = b.m

\* b opens the stage after the goal blocks of goal a.g: the next goal's
\* label, or the term bands after the last goal
LeavesBlock(a, b) ==
    \/ b.tag = "goal_text" /\ b.g = a.g + 1
    \/ b.tag = "near_rect" /\ a.g = Len(goals_df)

\* b opens the group of the next row of the same block
OpensRow(a, b) ==
    \/ b.tag = "stc_rect" /\ b.g = a.g
    \/ b.tag = "fta_rect" /\ b.g = a.g /\ b.r # a.r

\* May shape b directly follow shape a.  A merged STC cell is followed by
\* the FTA cell of the row that closed its run; afterBlock says whether it
\* may also stand after the last row of its block, and a row's group may
\* close the block only if it may not.
Follows(a, b, afterBlock) ==
    CASE a.tag \in {"fy_text", "col_text"} ->
            b.tag = "col_rect" \/ LeavesBlock(a, b)
      [] a.tag = "goal_text" ->
            (b.tag = "fta_rect" /\ b.g = a.g) \/ LeavesBlock(a, b)
      [] a.tag = "stc_text" ->
            (b.tag = "fta_rect" /\ b.g = a.g) \/ (afterBlock /\ LeavesBlock(a, b))
      [] a.tag = "row_bg" ->
            (b.tag = "gridline" /\ b.g = a.g /\ b.r = a.r)
            \/ (b.tag = "ms_marker" /\ b.g = a.g /\ b.r = a.r)
            \/ OpensRow(a, b) \/ (~afterBlock /\ LeavesBlock(a, b))
      [] a.tag = "gridline" ->
            (b.tag \in {"gridline", "ms_marker"} /\ b.g = a.g /\ b.r = a.r)
            \/ OpensRow(a, b) \/ (~afterBlock /\ LeavesBlock(a, b))
      [] a.tag = "ms_text" ->
            (b.tag = "ms_marker" /\ b.g = a.g /\ b.r = a.r /\ b.m > a.m)
            \/ OpensRow(a, b) \/ (~afterBlock /\ LeavesBlock(a, b))
      [] a.tag = "uc_caption" -> b.tag \in {"uc_caption", "uc_marker"}
      [] a.tag = "uc_text" -> b.tag = "uc_marker"
      [] OTHER -> InChain(a, b)

\* the order every pass keeps: stages never go back, goals come in sheet
\* order, the rows of a goal in sheet order, and each shape is followed by
\* a shape that may follow it
OrderKept(afterBlock) ==
    /\ cmds # <<>> => cmds[1].tag = "background"
    /\ \A p \in 1..(Len(cmds) - 1) :
          /\ StageOf(cmds[p].tag) <= StageOf(cmds[p + 1].tag)
          /\ Follows(cmds[p], cmds[p + 1], afterBlock)
    /\ LET heads == SelectSeq(cmds, LAMBDA c : c.tag = "goal_text")
       IN \A k \in 1..Len(heads) : heads[k].g = k
    /\ \A g \in 1..Len(goals_df) :
          LET ftas == ShapesOf("fta_rect", g)
          IN \A k \in 1..Len(ftas) : ftas[k].r = Block(g)[k].RowID

\* C11 as stated: background, title, timeline header, then per goal its
\* label and per row the STC cell of a run just closed (if any), the FTA
\* cell, the row background, the gridlines and the row's milestones in
\* declaration order, then the term bands, then the legend; so every STC
\* cell stands at the head of a row's group, directly before an FTA cell.
C11_Original_StcCellOnlyBeforeARow == OrderKept(FALSE)

\* C11 amended: the same order, except that the STC cell of the last run of
\* a goal block is emitted after the milestones of the block's last row,
\* directly before the next goal's label or the term bands.
C11_OrderWithLastRunAfterBlock == OrderKept(TRUE)

\* two goals, the first with two rows of different labels, and on row 1
\* two milestones at one position, the later-declared one drawn last
C11_Witness ==
    /\ pc = "done"
    /\ Len(goals_df) = 2
    /\ Len(Runs(1)) = 2
    /\ Len(Block(2)) = 1
    /\ \E p, q \in 1..Len(cmds) :
          /\ p < q
          /\ cmds[p].tag = "ms_marker" /\ cmds[p].m = 1
          /\ cmds[q].tag = "ms_marker" /\ cmds[q].m = 3
          /\ cmds[p].x = cmds[q].x /\ cmds[p].y = cmds[q].y
    /\ cmds[Len(cmds)].tag = "uc_text"

(***************************************************************************)
(* The term bands.                                                         *)
(***************************************************************************)
\* the cursor after the first n goal blocks: the start offset, one header
\* step per goal and the heights of the rows laid out
RECURSIVE CursorAfter(_)
CursorAfter(n) ==
    IF n = 0 THEN Inches(95)
    ELSE CursorAfter(n - 1) + Inches(30) + SumHeights(Block(n), 1, Len(Block(n)))

TheShape(tag) == SelectSeq(cmds, LAMBDA c : c.tag = tag)

\* C12: the three term bands share one top, the final cursor plus a fixed
\* gap, and one height; the final cursor is the start offset plus one header
\* step per goal plus the heights of the rows laid out, which is the bottom
\* edge of the last row of the last goal; the bands' x and widths are fixed,
\* and the legend is anchored a fixed offset below the bands' top.
C12_TermBandsBelowLastBlock ==
    LET top == CursorAfter(Len(goals_df)) + Inches(10)
        last == ShapesOf("fta_rect", Len(goals_df))
        Band(tag, x, w) ==
            /\ Len(TheShape(tag)) = 1
            /\ TheShape(tag)[1].x = x
            /\ TheShape(tag)[1].w = w
            /\ TheShape(tag)[1].y = top
            /\ TheShape(tag)[1].h = Inches(35)
    IN /\ pc \in {"legend", "done"} =>
             /\ Band("near_rect", left_margin, Inches(240))
             /\ Band("near_text", left_margin, Inches(240))
             /\ Band("mid_rect", left_margin + Inches(230), Inches(200))
             /\ Band("mid_text", left_margin + Inches(230), Inches(200))
             /\ Band("far_rect", left_margin + Inches(420), Inches(340))
             /\ Band("far_text", left_margin + Inches(420), Inches(340))
             /\ last # <<>> => top = last[Len(last)].y + last[Len(last)].h + Inches(10)
       /\ pc = "done" =>
             /\ Len(TheShape("legend_title")) = 1
             /\ TheShape("legend_title")[1].y = top + Inches(50)
       /\ pc \notin {"legend", "done"} => TheShape("near_rect") = <<>>

\* two goals with rows of different heights, the last goal not empty
C12_Witness ==
    /\ pc = "done"
    /\ Len(goals_df) = 2
    /\ Len(Block(1)) = 2
    /\ Block(1)[1].Height # Block(1)[2].Height
    /\ Len(Block(2)) = 1
    /\ TheShape("near_rect")[1].y = Inches(95 + 30 + 60 + 80 + 30 + 80 + 10)

(***************************************************************************)
(* Row backgrounds and gridlines.                                          *)
(***************************************************************************)
\* the distinct leading years of the first n columns, in order of first use
RECURSIVE KeysUpTo(_)
KeysUpTo(n) ==
    IF n = 0 THEN <<>>
    ELSE LET ks == KeysUpTo(n - 1)
             k == LeadYear(timeline_df[n].Year)
         IN IF \E i \in 1..Len(ks) : ks[i] = k THEN ks ELSE Append(ks, k)

DistinctKeys == KeysUpTo(Len(timeline_df))

\* the top of row k of the goal block at position g
RowTop(g, k) == CursorAfter(g - 1) + Inches(30) + SumHeights(Block(g), 1, k - 1)

\* C14: every row's background starts at the left margin, the left edge of
\* the fiscal-years cell, has the row's top and height, and ends at the
\* right edge of the last timeline column (left margin + label gutter + sum
\* of all column widths); and every row has exactly one gridline per
\* distinct year key, at that key's column x, spanning the row's height.
C14_RowBackgroundAndGridlines ==
    \A g \in 1..Len(goals_df) :
        LET bgs == ShapesOf("row_bg", g)
        IN /\ Len(bgs) <= Len(Block(g))
           /\ Finished(g) => Len(bgs) = Len(Block(g))
           /\ \A k \in 1..Len(bgs) :
                 LET row == Block(g)[k]
                     lines == SelectSeq(cmds, LAMBDA c : c.tag = "gridline" /\ c.g = g
                                                          /\ c.r = row.RowID)
                 IN /\ bgs[k].r = row.RowID
                    /\ bgs[k].x = left_margin
                    /\ bgs[k].x = TheShape("fy_rect")[1].x
                    /\ bgs[k].y = RowTop(g, k)
                    /\ bgs[k].h = Inches(row.Height)
                    /\ bgs[k].x + bgs[k].w =
                          left_margin + Inches(100)
                          + SumWidths(timeline_df, Len(timeline_df))
                    /\ Len(lines) = Len(DistinctKeys)
                    /\ \A j \in 1..Len(lines) :
                          /\ lines[j].x = ColumnX(ColumnOf(DistinctKeys[j]))
                          /\ lines[j].y = RowTop(g, k)
                          /\ lines[j].h = Inches(row.Height)

\* three columns of which two share the key 2029, two rows of different
\* heights: two gridlines per row
C14_Witness ==
    /\ pc = "done"
    /\ Len(timeline_df) = 3
    /\ Len(DistinctKeys) = 2
    /\ Len(rows_df) = 2
    /\ rows_df[1].Height # rows_df[2].Height
    /\ Len(SelectSeq(cmds, LAMBDA c : c.tag = "gridline")) = 4
    /\ Len(ShapesOf("row_bg", 1)) = 2
====
